---- MODULE Spec2Model ----
(***************************************************************************)
(* Power-policy device model of embedded-services:                         *)
(*   embedded-service/src/power/policy/device.rs                           *)
(* A Device owns one InternalState behind a mutex and one deferred command *)
(* channel.  Policy tasks call execute_device_command, the driver task     *)
(* calls receive and completes the handle it obtains.                      *)
(***************************************************************************)
EXTENDS Integers, Sequences, FiniteSets, TLC

(***************************************************************************)
(* Bounds and value sets                                                   *)
(***************************************************************************)
\* total number of execute_device_command calls made on one device
MaxCalls == 2

\* registered devices (DeviceId values)
Devices == {"A", "B"}
\* the device the single-device specifications exercise
Dev0 == "A"
\* policy-side tasks that call execute_device_command
Callers == {"p1", "p2"}
\* power capability payloads (ProviderPowerCapability / ConsumerPowerCapability)
ProviderCaps == {5, 9}
ConsumerCaps == {5, 9}

\* Option<T>
None == <<>>
Some(x) == <<x>>
\* Result<T, E>
Ok(x) == <<"Ok", x>>
Err(e) == <<"Err", e>>

(***************************************************************************)
(* device.rs data types                                                    *)
(***************************************************************************)
StateKind == {"Detached", "Idle", "ConnectedProvider", "ConnectedConsumer"}

State ==
    {<<"Idle">>, <<"Detached">>}
        \cup {<<"ConnectedProvider", c>> : c \in ProviderCaps}
        \cup {<<"ConnectedConsumer", c>> : c \in ConsumerCaps}

\* variant: the arms of the two connected variants exchanged
kind_exchanged(s) ==
    CASE s = <<"Idle">> -> "Idle"
      [] Len(s) = 2 /\ s[1] = "ConnectedProvider" -> "ConnectedConsumer"
      [] Len(s) = 2 /\ s[1] = "ConnectedConsumer" -> "ConnectedProvider"
      [] s = <<"Detached">> -> "Detached"

\* State::kind
kind(s) ==
    CASE s = <<"Idle">> -> "Idle"
      [] Len(s) = 2 /\ s[1] = "ConnectedProvider" -> "ConnectedProvider"
      [] Len(s) = 2 /\ s[1] = "ConnectedConsumer" -> "ConnectedConsumer"
      [] s = <<"Detached">> -> "Detached"

CommandData ==
    {<<"ConnectAsConsumer", c>> : c \in ConsumerCaps}
        \cup {<<"ConnectAsProvider", c>> : c \in ProviderCaps}
        \cup {<<"Disconnect">>}

\* ResponseData::Complete
Complete == <<"Complete">>
\* Error::InvalidState(expected, actual)
InvalidState(expected, actual) == <<"InvalidState", expected, actual>>
\* an error a driver reports for a command it could not carry out
Failed == <<"Failed">>
\* the error the specification names for a channel whose peer ended
Closed == <<"Closed">>

\* InternalResponseData = Result<ResponseData, Error>: what a driver answers
InternalResponseData == {Ok(Complete), Err(Failed)}

\* variant: a device constructed as attached
InternalState_new_idle ==
    [state |-> <<"Idle">>,
     consumer_capability |-> None,
     requested_provider_capability |-> None]

\* Device::new: the InternalState of a constructed device
InternalState_new ==
    [state |-> <<"Detached">>,
     consumer_capability |-> None,
     requested_provider_capability |-> None]

\* deferred::Channel::new: both mailbox slots empty, nothing claimed, no waiter
Channel_new ==
    [waiters |-> <<>>, request |-> None, claimed |-> FALSE, reply |-> None]

\* history of one channel, kept for the statements below: the calls made,
\* the commands delivered, the answers given, the calls returned and the
\* calls abandoned, in order, and whether some call was made while the
\* driver was already waiting in receive
History_new ==
    [calls |-> <<>>, delivered |-> <<>>, answered |-> <<>>, returned |-> <<>>,
     abandoned |-> <<>>, early |-> FALSE]

\* intrusive_list::Node::uninit: a link record that is part of no list
Node_uninit == [linked |-> FALSE]
\* the error of an insertion of a container that is already linked
AlreadyLinked == "AlreadyLinked"

VARIABLES
    internal,   \* Device.state: the guarded InternalState of each device
    chan,       \* Device.command: the deferred channel of each device
    pc,         \* position of each policy task
    call,       \* the execute_device_command call a policy task is in
    drv,        \* position of each device's driver task
    held,       \* the request handle the driver task holds
    hist,       \* per device: calls, deliveries, answers and returns so far
    probe,      \* outcome of the last typestate / detach / register operation
    node,       \* Device.node: the link record embedded in each device
    list        \* the registry: the devices linked into it, in list order

vars == <<internal, chan, pc, call, drv, held, hist, probe, node, list>>

(***************************************************************************)
(* Read accessors                                                          *)
(***************************************************************************)
\* Device::state
state(d) == internal[d].state
\* Device::consumer_capability
consumer_capability(d) == internal[d].consumer_capability
\* Device::is_consumer
is_consumer(d) == kind(state(d)) = "ConnectedConsumer"
\* variant: the requested capability is returned instead of the live one
provider_capability_requested(d) == internal[d].requested_provider_capability

\* variant: the capability of either connected variant is returned
provider_capability_connected(d) ==
    IF Len(state(d)) = 2 THEN Some(state(d)[2]) ELSE None

\* Device::provider_capability
provider_capability(d) ==
    IF Len(state(d)) = 2 /\ state(d)[1] = "ConnectedProvider"
        THEN Some(state(d)[2])
        ELSE None
\* Device::requested_provider_capability
requested_provider_capability(d) == internal[d].requested_provider_capability
\* variant: the comparison of is_consumer pasted into is_provider
is_provider_pasted(d) == kind(state(d)) = "ConnectedConsumer"

\* Device::is_provider
is_provider(d) == kind(state(d)) = "ConnectedProvider"

Init ==
    /\ internal = [d \in Devices |-> InternalState_new]
    /\ chan = [d \in Devices |-> Channel_new]
    /\ pc = [t \in Callers |-> "idle"]
    /\ call = [t \in Callers |-> None]
    /\ drv = [d \in Devices |-> "idle"]
    /\ held = [d \in Devices |-> None]
    /\ hist = [d \in Devices |-> History_new]
    /\ probe = None
    /\ node = [d \in Devices |-> Node_uninit]
    /\ list = <<>>

(***************************************************************************)
(* deferred::Channel: a two-slot mailbox (pending request, reply), a       *)
(* claimed flag and an ordered wait queue of producers.                    *)
(***************************************************************************)
\* variant: a producer takes the front of the wait queue
Channel_enqueue_front(c, t) == [c EXCEPT !.waiters = <<t>> \o @]

\* a producer joins the wait queue in call order
Channel_enqueue(c, t) == [c EXCEPT !.waiters = Append(@, t)]

\* variant: a waiting producer offers without looking at the request slot
Channel_free_for_any(c, t) ==
    /\ c.waiters # <<>>
    /\ \E i \in 1..Len(c.waiters) : c.waiters[i] = t
    /\ c.reply = None

\* the channel is free for the producer at the head of the queue
Channel_free_for(c, t) ==
    /\ c.waiters # <<>>
    /\ Head(c.waiters) = t
    /\ c.request = None
    /\ c.claimed = FALSE
    /\ c.reply = None

\* the head producer places its request in the request slot
Channel_offer(c, cmd) == [c EXCEPT !.request = Some(cmd)]

\* a request is available to a receiver
Channel_available(c) == c.request # None /\ c.claimed = FALSE

\* the receiver claims the pending request
Channel_claim(c) == [c EXCEPT !.claimed = TRUE]

\* the place in the wait queue of a producer that gave up after its request
\* was offered: the channel stays taken until that request is answered
Abandoned == "abandoned"

\* Request::respond: the handle is completed with a response; the response
\* to a request whose producer gave up is discarded and the channel freed
Request_respond(c, r) ==
    IF c.waiters # <<>> /\ Head(c.waiters) = Abandoned
        THEN [waiters |-> Tail(c.waiters), request |-> None,
              claimed |-> FALSE, reply |-> None]
        ELSE [c EXCEPT !.reply = Some(r)]

\* the reply for the producer at the head of the queue has arrived
Channel_answered_for(c, t) ==
    /\ c.waiters # <<>>
    /\ Head(c.waiters) = t
    /\ c.reply # None

\* variant: the reply is taken and the claim of the receiver is left set
Channel_take_claimed(c) ==
    [waiters |-> Tail(c.waiters), request |-> None,
     claimed |-> TRUE, reply |-> None]

\* the head producer takes the reply and frees the channel
Channel_take(c) ==
    [waiters |-> Tail(c.waiters), request |-> None,
     claimed |-> FALSE, reply |-> None]

\* the wait queue without producer t
Without(q, t) == SelectSeq(q, LAMBDA x : x # t)

\* variant: a producer that gives up takes its request with it and leaves
\* the channel free
Channel_abandon_frees(c, t) ==
    IF c.request = None
        THEN [c EXCEPT !.waiters = Without(@, t)]
        ELSE [waiters |-> Tail(c.waiters), request |-> None,
              claimed |-> FALSE, reply |-> None]

\* the producer t gives up: a producer still waiting for the channel leaves
\* the queue; a producer whose request is offered leaves the request to be
\* answered, and an answer that has already arrived is discarded
Channel_abandon(c, t) ==
    IF Head(c.waiters) # t \/ c.request = None
        THEN [c EXCEPT !.waiters = Without(@, t)]
        ELSE IF c.reply = None
            THEN [c EXCEPT !.waiters = <<Abandoned>> \o Tail(@)]
            ELSE [waiters |-> Tail(c.waiters), request |-> None,
                  claimed |-> FALSE, reply |-> None]

(***************************************************************************)
(* Command surface of the device                                           *)
(***************************************************************************)
\* what a policy task keeps of the call it is in: the target, the command
\* and, once the call has returned, the result
NewCall(d, command) == [dev |-> d, cmd |-> command, result |-> None]

\* the state kinds in which the policy issues a command
RequiredKinds(command) ==
    CASE command[1] = "ConnectAsConsumer" -> {"Idle"}
      [] command[1] = "ConnectAsProvider" -> {"Idle"}
      [] command[1] = "Disconnect" -> {"ConnectedProvider", "ConnectedConsumer"}

\* variant: the call checks the live state kind and rejects a command the
\* state does not allow, without forwarding it
execute_device_command_checked(t, d, command) ==
    /\ pc[t] = "idle"
    /\ Len(hist[d].calls) < MaxCalls
    /\ IF kind(internal[d].state) \in RequiredKinds(command)
          THEN /\ chan' = [chan EXCEPT ![d].waiters = Append(@, t)]
               /\ pc' = [pc EXCEPT ![t] = "queued"]
               /\ call' = [call EXCEPT ![t] =
                            Some([dev |-> d, cmd |-> command, result |-> None])]
               /\ hist' = [hist EXCEPT
                            ![d].calls = Append(@, [by |-> t, cmd |-> command]),
                            ![d].early = @ \/ drv[d] = "receiving"]
          ELSE /\ pc' = [pc EXCEPT ![t] = "returned"]
               /\ call' = [call EXCEPT ![t] =
                            Some([dev |-> d, cmd |-> command,
                                  result |-> Some(Err(InvalidState(
                                      CHOOSE k \in RequiredKinds(command) : TRUE,
                                      kind(internal[d].state))))])]
               /\ UNCHANGED <<chan, hist>>
    /\ UNCHANGED <<internal, drv, held, probe, node, list>>

\* Device::execute_device_command, the call: the command is handed to the
\* channel's execute; the live state is neither read nor written
execute_device_command(t, d, command) ==
    /\ pc[t] = "idle"
    /\ Len(hist[d].calls) < MaxCalls
    /\ chan' = [chan EXCEPT ![d] = Channel_enqueue(@, t)]
    /\ pc' = [pc EXCEPT ![t] = "queued"]
    /\ call' = [call EXCEPT ![t] = Some(NewCall(d, command))]
    /\ hist' = [hist EXCEPT ![d].calls = Append(@, [by |-> t, cmd |-> command]),
                             ![d].early = @ \/ drv[d] = "receiving"]
    /\ UNCHANGED <<internal, drv, held, probe, node, list>>

\* execute, once the channel is free: the request is offered to the receiver
execute_offer(t, d) ==
    /\ pc[t] = "queued"
    /\ call[t] # None /\ call[t][1].dev = d
    /\ Channel_free_for(chan[d], t)
    /\ chan' = [chan EXCEPT ![d] = Channel_offer(@, call[t][1].cmd)]
    /\ pc' = [pc EXCEPT ![t] = "offered"]
    /\ UNCHANGED <<internal, call, drv, held, hist, probe, node, list>>

\* variant: a call whose driver task has ended returns the Closed error
execute_return_closed(t, d) ==
    /\ pc[t] = "offered"
    /\ call[t] # None /\ call[t][1].dev = d
    /\ chan[d].waiters # <<>> /\ Head(chan[d].waiters) = t
    /\ chan[d].reply # None \/ drv[d] = "gone"
    /\ LET answer == IF chan[d].reply # None
                        THEN chan[d].reply ELSE Some(Err(Closed)) IN
         /\ call' = [call EXCEPT ![t] = Some([@[1] EXCEPT !.result = answer])]
         /\ hist' = [hist EXCEPT ![d].returned =
                        Append(@, [by |-> t, cmd |-> call[t][1].cmd,
                                   resp |-> answer[1]])]
    /\ chan' = [chan EXCEPT ![d] =
                    [waiters |-> Tail(chan[d].waiters), request |-> None,
                     claimed |-> FALSE, reply |-> None]]
    /\ pc' = [pc EXCEPT ![t] = "returned"]
    /\ UNCHANGED <<internal, drv, held, probe, node, list>>

\* variant: on the answer to a Disconnect the call itself marks the device
\* Detached
execute_return_detaches(t, d) ==
    /\ pc[t] = "offered"
    /\ call[t] # None /\ call[t][1].dev = d
    /\ chan[d].waiters # <<>> /\ Head(chan[d].waiters) = t
    /\ chan[d].reply # None
    /\ chan' = [chan EXCEPT ![d] =
                    [waiters |-> Tail(chan[d].waiters), request |-> None,
                     claimed |-> FALSE, reply |-> None]]
    /\ pc' = [pc EXCEPT ![t] = "returned"]
    /\ call' = [call EXCEPT ![t] = Some([@[1] EXCEPT !.result = chan[d].reply])]
    /\ hist' = [hist EXCEPT ![d].returned =
                    Append(@, [by |-> t, cmd |-> call[t][1].cmd,
                               resp |-> chan[d].reply[1]])]
    /\ internal' = [internal EXCEPT ![d].state =
                        IF call[t][1].cmd = <<"Disconnect">>
                              /\ chan[d].reply = Some(<<"Ok", <<"Complete">>>>)
                            THEN <<"Detached">> ELSE @]
    /\ UNCHANGED <<drv, held, probe, node, list>>

\* variant: an error answer is not returned, the request is offered to the
\* driver again
execute_return_retries(t, d) ==
    /\ pc[t] = "offered"
    /\ call[t] # None /\ call[t][1].dev = d
    /\ Channel_answered_for(chan[d], t)
    /\ IF chan[d].reply[1][1] = "Err"
          THEN /\ chan' = [chan EXCEPT ![d].claimed = FALSE, ![d].reply = None]
               /\ UNCHANGED <<pc, call, hist>>
          ELSE /\ chan' = [chan EXCEPT ![d] = Channel_take(@)]
               /\ pc' = [pc EXCEPT ![t] = "returned"]
               /\ call' = [call EXCEPT ![t] =
                                Some([@[1] EXCEPT !.result = chan[d].reply])]
               /\ hist' = [hist EXCEPT ![d].returned =
                                Append(@, [by |-> t, cmd |-> call[t][1].cmd,
                                           resp |-> chan[d].reply[1]])]
    /\ UNCHANGED <<internal, drv, held, probe, node, list>>

\* Device::execute_device_command, the return: the response of the channel
\* is the result of the call, unchanged
execute_return(t, d) ==
    /\ pc[t] = "offered"
    /\ call[t] # None /\ call[t][1].dev = d
    /\ Channel_answered_for(chan[d], t)
    /\ chan' = [chan EXCEPT ![d] = Channel_take(@)]
    /\ pc' = [pc EXCEPT ![t] = "returned"]
    /\ call' = [call EXCEPT ![t] = Some([@[1] EXCEPT !.result = chan[d].reply])]
    /\ hist' = [hist EXCEPT ![d].returned =
                    Append(@, [by |-> t, cmd |-> call[t][1].cmd,
                               resp |-> chan[d].reply[1]])]
    /\ UNCHANGED <<internal, drv, held, probe, node, list>>

\* a policy task abandons the execute_device_command call it is suspended
\* in (it lost a race against an external timer, or was cancelled)
execute_abandon(t, d) ==
    /\ pc[t] \in {"queued", "offered"}
    /\ call[t] # None /\ call[t][1].dev = d
    /\ chan' = [chan EXCEPT ![d] = Channel_abandon(@, t)]
    /\ pc' = [pc EXCEPT ![t] = "idle"]
    /\ call' = [call EXCEPT ![t] = None]
    /\ hist' = [hist EXCEPT ![d].abandoned =
                    Append(@, [by |-> t, cmd |-> call[t][1].cmd, at |-> pc[t]])]
    /\ UNCHANGED <<internal, drv, held, probe, node, list>>

\* Device::receive, the call: the driver task starts waiting for a request
receive(d) ==
    /\ drv[d] = "idle"
    /\ drv' = [drv EXCEPT ![d] = "receiving"]
    /\ UNCHANGED <<internal, chan, pc, call, held, hist, probe, node, list>>

\* Device::receive, the return: the driver obtains the handle of the
\* pending request
receive_return(d) ==
    /\ drv[d] = "receiving"
    /\ Channel_available(chan[d])
    /\ chan' = [chan EXCEPT ![d] = Channel_claim(@)]
    /\ held' = [held EXCEPT ![d] = chan[d].request]
    /\ drv' = [drv EXCEPT ![d] = "handling"]
    /\ hist' = [hist EXCEPT ![d].delivered = Append(@, chan[d].request[1])]
    /\ UNCHANGED <<internal, pc, call, probe, node, list>>

\* the driver completes the handle it holds, exactly once
respond(d, r) ==
    /\ drv[d] = "handling"
    /\ held[d] # None
    /\ chan' = [chan EXCEPT ![d] = Request_respond(@, r)]
    /\ held' = [held EXCEPT ![d] = None]
    /\ drv' = [drv EXCEPT ![d] = "idle"]
    /\ hist' = [hist EXCEPT ![d].answered = Append(@, r)]
    /\ UNCHANGED <<internal, pc, call, probe, node, list>>

(***************************************************************************)
(* Privileged setters: each takes the guard and writes one field           *)
(***************************************************************************)
\* variant: a task suspended in execute_device_command keeps the guard, and
\* set_state waits for it
set_state_after_call(d, new_state) ==
    /\ ~(\E t \in Callers :
            /\ pc[t] \in {"queued", "offered"}
            /\ call[t] # None
            /\ call[t][1].dev = d)
    /\ internal' = [internal EXCEPT ![d].state = new_state]

\* variant: the handle a try_*_action handed out keeps the guard, and
\* set_state waits for it
set_state_pinned(d, new_state) ==
    /\ ~(/\ probe # None
         /\ probe[1][1] \in {"try_device_action", "try_policy_action"}
         /\ probe[1][2] = d
         /\ probe[1][4][1] = "Ok")
    /\ internal' = [internal EXCEPT ![d].state = new_state]

\* variant: a state other than ConnectedConsumer clears the consumer
\* capability with it
set_state_clears(d, new_state) ==
    internal' = [internal EXCEPT
                    ![d].state = new_state,
                    ![d].consumer_capability =
                        IF new_state[1] = "ConnectedConsumer" THEN @ ELSE None]

\* variant: one InternalState shared by all devices
set_state_shared(d, new_state) ==
    internal' = [x \in Devices |-> [internal[x] EXCEPT !.state = new_state]]

\* Device::set_state
set_state(d, new_state) ==
    internal' = [internal EXCEPT ![d].state = new_state]

\* variant: the capability is written to both capability fields
update_consumer_capability_both(d, capability) ==
    internal' = [internal EXCEPT ![d].consumer_capability = capability,
                                 ![d].requested_provider_capability = capability]

\* Device::update_consumer_capability
update_consumer_capability(d, capability) ==
    internal' = [internal EXCEPT ![d].consumer_capability = capability]

\* Device::update_requested_provider_capability
update_requested_provider_capability(d, capability) ==
    internal' = [internal EXCEPT ![d].requested_provider_capability = capability]

(***************************************************************************)
(* Typestate access                                                        *)
(***************************************************************************)
\* action::device::Device<S> / action::policy::Policy<S>: a handle holds the
\* device reference and the tag S, and no guard
Handle(view, d, S) == <<view, d, S>>

\* Device::try_device_action::<S>, its result
try_device_action(d, S) ==
    IF S # kind(state(d))
        THEN Err(InvalidState(S, kind(state(d))))
        ELSE Ok(Handle("device", d, S))

\* variant: expected and actual kind swapped in the error
try_policy_action_swapped(d, S) ==
    IF S # kind(state(d))
        THEN Err(InvalidState(kind(state(d)), S))
        ELSE Ok(Handle("policy", d, S))

\* Device::try_policy_action::<S>, its result
try_policy_action(d, S) ==
    IF S # kind(state(d))
        THEN Err(InvalidState(S, kind(state(d))))
        ELSE Ok(Handle("policy", d, S))

\* Device::device_action: the tagged union over the four handles
device_action(d) ==
    CASE kind(state(d)) = "Detached" ->
            <<"Detached", Handle("device", d, "Detached")>>
      [] kind(state(d)) = "Idle" ->
            <<"Idle", Handle("device", d, "Idle")>>
      [] kind(state(d)) = "ConnectedProvider" ->
            <<"ConnectedProvider", Handle("device", d, "ConnectedProvider")>>
      [] kind(state(d)) = "ConnectedConsumer" ->
            <<"ConnectedConsumer", Handle("device", d, "ConnectedConsumer")>>

\* Device::policy_action
policy_action(d) ==
    CASE kind(state(d)) = "Detached" ->
            <<"Detached", Handle("policy", d, "Detached")>>
      [] kind(state(d)) = "Idle" ->
            <<"Idle", Handle("policy", d, "Idle")>>
      [] kind(state(d)) = "ConnectedProvider" ->
            <<"ConnectedProvider", Handle("policy", d, "ConnectedProvider")>>
      [] kind(state(d)) = "ConnectedConsumer" ->
            <<"ConnectedConsumer", Handle("policy", d, "ConnectedConsumer")>>

\* a task calls try_device_action::<S> and keeps the outcome
TryDeviceAction(d, S) ==
    /\ probe' = Some(<<"try_device_action", d, S, try_device_action(d, S)>>)
    /\ UNCHANGED <<internal, chan, pc, call, drv, held, hist, node, list>>

\* a task calls try_policy_action::<S> and keeps the outcome
TryPolicyAction(d, S) ==
    /\ probe' = Some(<<"try_policy_action", d, S, try_policy_action(d, S)>>)
    /\ UNCHANGED <<internal, chan, pc, call, drv, held, hist, node, list>>

\* a task calls device_action and keeps the handle
DeviceAction(d) ==
    /\ probe' = Some(<<"device_action", d, device_action(d)[1], device_action(d)[2]>>)
    /\ UNCHANGED <<internal, chan, pc, call, drv, held, hist, node, list>>

\* a task calls policy_action and keeps the handle
PolicyAction(d) ==
    /\ probe' = Some(<<"policy_action", d, policy_action(d)[1], policy_action(d)[2]>>)
    /\ UNCHANGED <<internal, chan, pc, call, drv, held, hist, node, list>>

\* a task calls the read accessors and keeps what they returned
ReadAccessors(d) ==
    /\ probe' = Some(<<"read", d, kind(state(d)),
                       [state |-> state(d),
                        consumer_capability |-> consumer_capability(d),
                        provider_capability |-> provider_capability(d),
                        requested_provider_capability |->
                            requested_provider_capability(d),
                        is_consumer |-> is_consumer(d),
                        is_provider |-> is_provider(d)]>>)
    /\ UNCHANGED <<internal, chan, pc, call, drv, held, hist, node, list>>

\* a task calls set_state
SetState(d, new_state) ==
    /\ set_state(d, new_state)
    /\ probe' = Some(<<"set_state", d, kind(new_state), new_state>>)
    /\ UNCHANGED <<chan, pc, call, drv, held, hist, node, list>>

\* a task calls update_consumer_capability
UpdateConsumerCapability(d, capability) ==
    /\ update_consumer_capability(d, capability)
    /\ probe' = Some(<<"update_consumer_capability", d, kind(state(d)), capability>>)
    /\ UNCHANGED <<chan, pc, call, drv, held, hist, node, list>>

\* a task calls update_requested_provider_capability
UpdateRequestedProviderCapability(d, capability) ==
    /\ update_requested_provider_capability(d, capability)
    /\ probe' = Some(<<"update_requested_provider_capability", d,
                       kind(state(d)), capability>>)
    /\ UNCHANGED <<chan, pc, call, drv, held, hist, node, list>>

\* the detach operation of a handle in an attached state: the device
\* collapses to Detached
state_detach(d, handle) ==
    /\ set_state(d, <<"Detached">>)
    /\ probe' = Some(<<"detach", d, handle[3],
                       Ok(Handle("device", d, "Detached"))>>)

\* variant: the Idle arm returns its handle without delegating
detach_idle_returns(d) ==
    /\ LET any == device_action(d) IN
         CASE any[1] = "Detached" ->
                /\ probe' = Some(<<"detach", d, any[1], Ok(any[2])>>)
                /\ UNCHANGED internal
           [] any[1] = "Idle" ->
                /\ probe' = Some(<<"detach", d, any[1], Ok(any[2])>>)
                /\ UNCHANGED internal
           [] any[1] = "ConnectedProvider" -> state_detach(d, any[2])
           [] any[1] = "ConnectedConsumer" -> state_detach(d, any[2])
    /\ UNCHANGED <<chan, pc, call, drv, held, hist, node, list>>

\* Device::detach
detach(d) ==
    /\ LET any == device_action(d) IN
         CASE any[1] = "Detached" ->
                /\ probe' = Some(<<"detach", d, any[1], Ok(any[2])>>)
                /\ UNCHANGED internal
           [] any[1] = "Idle" -> state_detach(d, any[2])
           [] any[1] = "ConnectedProvider" -> state_detach(d, any[2])
           [] any[1] = "ConnectedConsumer" -> state_detach(d, any[2])
    /\ UNCHANGED <<chan, pc, call, drv, held, hist, node, list>>

\* the attach operation of a Detached handle: the driver reports an attach
\* event and the device becomes Idle
attach(d) ==
    /\ try_device_action(d, "Detached") = Ok(Handle("device", d, "Detached"))
    /\ set_state(d, <<"Idle">>)
    /\ probe' = Some(<<"attach", d, "Detached", Ok(Handle("device", d, "Idle"))>>)
    /\ UNCHANGED <<chan, pc, call, drv, held, hist, node, list>>

(***************************************************************************)
(* Policy side: the state a completed command leaves the device in         *)
(***************************************************************************)
NewStateFor(command) ==
    CASE command[1] = "ConnectAsConsumer" -> <<"ConnectedConsumer", command[2]>>
      [] command[1] = "ConnectAsProvider" -> <<"ConnectedProvider", command[2]>>
      [] command[1] = "Disconnect" -> <<"Idle">>

\* the policy action that issued the command ends: on Ok(Complete) it
\* records the new state with set_state, on an error it changes nothing
policy_finish(t) ==
    /\ pc[t] = "returned"
    /\ call[t] # None
    /\ IF call[t][1].result = Some(Ok(Complete))
          THEN set_state(call[t][1].dev, NewStateFor(call[t][1].cmd))
          ELSE UNCHANGED internal
    /\ pc' = [pc EXCEPT ![t] = "idle"]
    /\ call' = [call EXCEPT ![t] = None]
    /\ UNCHANGED <<chan, drv, held, hist, probe, node, list>>

\* a policy task obtains the handle of a state kind the command is issued
\* in, and issues the command through it
policy_command(t, d, command) ==
    /\ \E S \in RequiredKinds(command) :
            try_policy_action(d, S) = Ok(Handle("policy", d, S))
    /\ execute_device_command(t, d, command)

\* the driver task of a device ends: nothing calls receive any more
driver_stop(d) ==
    /\ drv[d] # "gone"
    /\ drv' = [drv EXCEPT ![d] = "gone"]
    /\ UNCHANGED <<internal, chan, pc, call, held, hist, probe, node, list>>

(***************************************************************************)
(* Specifications                                                          *)
(***************************************************************************)
\* the channel between policy tasks and the driver of one device, with the
\* attach / detach events of the driver
Next ==
    \/ \E t \in Callers, command \in CommandData :
            execute_device_command(t, Dev0, command)
    \/ \E t \in Callers : execute_offer(t, Dev0)
    \/ \E t \in Callers : execute_return(t, Dev0)
    \/ \E t \in Callers : policy_finish(t)
    \/ receive(Dev0)
    \/ receive_return(Dev0)
    \/ \E r \in InternalResponseData : respond(Dev0, r)
    \/ attach(Dev0)
    \/ detach(Dev0)

Spec == Init /\ [][Next]_vars

\* the same, with a driver task that may end
NextStop ==
    \/ Next
    \/ driver_stop(Dev0)

SpecStop == Init /\ [][NextStop]_vars

(***************************************************************************)
(* Registry: the intrusive list the devices are linked into                *)
(***************************************************************************)
\* NodeContainer::get_node of Device: the link record of device d
get_node(n, d) == n[d]

\* variant: the insertion does not look at the link record
IntrusiveList_push_unchecked(l, n, d) ==
    [list |-> Append(l, d), node |-> [n EXCEPT ![d].linked = TRUE],
     result |-> Ok(d)]

\* IntrusiveList::push: links the container at the tail, or fails with
\* AlreadyLinked when its link record is already part of a list
IntrusiveList_push(l, n, d) ==
    IF get_node(n, d).linked
        THEN [list |-> l, node |-> n, result |-> Err(AlreadyLinked)]
        ELSE [list |-> Append(l, d), node |-> [n EXCEPT ![d].linked = TRUE],
              result |-> Ok(d)]

\* the iteration of the list: its containers in list order
IntrusiveList_iter(l) == [i \in 1..Len(l) |-> l[i]]

\* Wrapper::register: device d is appended to the registry
register(d) ==
    LET r == IntrusiveList_push(list, node, d) IN
    /\ list' = r.list
    /\ node' = r.node
    /\ probe' = Some(<<"register", d, "node", r.result>>)
    /\ UNCHANGED <<internal, chan, pc, call, drv, held, hist>>

\* the commands issued when two devices are driven side by side
TwoCommands == {<<"ConnectAsConsumer", 5>>, <<"Disconnect">>}

\* the policy task that drives device d when two devices are driven side by
\* side
TaskOf(d) == IF d = Dev0 THEN "p1" ELSE "p2"

\* two devices, each with its own driver task and a policy task calling it
NextTwo ==
    \/ \E d \in Devices, command \in TwoCommands :
            execute_device_command(TaskOf(d), d, command)
    \/ \E d \in Devices : execute_offer(TaskOf(d), d)
    \/ \E d \in Devices : execute_return(TaskOf(d), d)
    \/ \E t \in Callers : policy_finish(t)
    \/ \E d \in Devices : receive(d)
    \/ \E d \in Devices : receive_return(d)
    \/ \E d \in Devices : respond(d, Ok(Complete))
    \/ \E d \in Devices : detach(d)

SpecTwo == Init /\ [][NextTwo]_vars

\* the capabilities a setter is called with
OptionConsumerCaps == {None} \cup {Some(c) : c \in ConsumerCaps}
OptionProviderCaps == {None} \cup {Some(c) : c \in ProviderCaps}

\* the setters, the accessors and the typestate access of one device, called
\* by tasks in any order, next to one execute call and the driver
NextSetters ==
    \/ \E new_state \in State : SetState(Dev0, new_state)
    \/ \E capability \in OptionConsumerCaps :
            UpdateConsumerCapability(Dev0, capability)
    \/ \E capability \in OptionProviderCaps :
            UpdateRequestedProviderCapability(Dev0, capability)
    \/ ReadAccessors(Dev0)
    \/ \E S \in StateKind : TryDeviceAction(Dev0, S)
    \/ \E S \in StateKind : TryPolicyAction(Dev0, S)
    \/ DeviceAction(Dev0)
    \/ PolicyAction(Dev0)
    \/ execute_device_command("p1", Dev0, <<"Disconnect">>)
    \/ execute_offer("p1", Dev0)
    \/ execute_return("p1", Dev0)
    \/ receive(Dev0)
    \/ receive_return(Dev0)
    \/ respond(Dev0, Ok(Complete))

SpecSetters == Init /\ [][NextSetters]_vars

\* one device whose commands are issued through typestate handles only
NextGated ==
    \/ \E t \in Callers, command \in CommandData :
            policy_command(t, Dev0, command)
    \/ \E t \in Callers : execute_offer(t, Dev0)
    \/ \E t \in Callers : execute_return(t, Dev0)
    \/ \E t \in Callers : policy_finish(t)
    \/ receive(Dev0)
    \/ receive_return(Dev0)
    \/ \E r \in InternalResponseData : respond(Dev0, r)
    \/ attach(Dev0)
    \/ detach(Dev0)

SpecGated == Init /\ [][NextGated]_vars

\* the channel of one device whose driver keeps calling receive and
\* completes every handle, under a scheduler that runs every task that can
\* take a step
NextLive ==
    \/ \E t \in Callers, command \in CommandData :
            execute_device_command(t, Dev0, command)
    \/ \E t \in Callers : execute_offer(t, Dev0)
    \/ \E t \in Callers : execute_return(t, Dev0)
    \/ \E t \in Callers : policy_finish(t)
    \/ receive(Dev0)
    \/ receive_return(Dev0)
    \/ \E r \in InternalResponseData : respond(Dev0, r)

Fairness ==
    /\ WF_vars(receive(Dev0))
    /\ WF_vars(receive_return(Dev0))
    /\ WF_vars(\E r \in InternalResponseData : respond(Dev0, r))
    /\ \A t \in Callers : WF_vars(execute_offer(t, Dev0))
    /\ \A t \in Callers : WF_vars(execute_return(t, Dev0))

SpecLive == Init /\ [][NextLive]_vars /\ Fairness

\* registration and lifecycle of the devices
NextRegistry ==
    \/ \E d \in Devices : register(d)
    \/ \E d \in Devices : attach(d)
    \/ \E d \in Devices : detach(d)
    \/ \E d \in Devices, S \in StateKind : TryDeviceAction(d, S)

SpecRegistry == Init /\ [][NextRegistry]_vars

\* the channel of one device with policy tasks that may abandon a call
NextAbandon ==
    \/ \E t \in Callers, command \in CommandData :
            execute_device_command(t, Dev0, command)
    \/ \E t \in Callers : execute_offer(t, Dev0)
    \/ \E t \in Callers : execute_return(t, Dev0)
    \/ \E t \in Callers : execute_abandon(t, Dev0)
    \/ \E t \in Callers : policy_finish(t)
    \/ receive(Dev0)
    \/ receive_return(Dev0)
    \/ \E r \in InternalResponseData : respond(Dev0, r)

SpecAbandon == Init /\ [][NextAbandon]_vars

\* typestate access of one policy task and the driver
NextTypestate ==
    \/ \E command \in CommandData : execute_device_command("p1", Dev0, command)
    \/ execute_offer("p1", Dev0)
    \/ execute_return("p1", Dev0)
    \/ policy_finish("p1")
    \/ receive(Dev0)
    \/ receive_return(Dev0)
    \/ respond(Dev0, Ok(Complete))
    \/ attach(Dev0)
    \/ detach(Dev0)
    \/ \E S \in StateKind : TryDeviceAction(Dev0, S)
    \/ \E S \in StateKind : TryPolicyAction(Dev0, S)

SpecTypestate == Init /\ [][NextTypestate]_vars

(***************************************************************************)
(* Statements about the command channel                                    *)
(***************************************************************************)
\* the policy tasks inside execute_device_command on device d
Waiting(d) ==
    {t \in Callers : pc[t] \in {"queued", "offered"}
                        /\ call[t] # None /\ call[t][1].dev = d}
\* those whose request is in flight: offered, or claimed and not yet answered
InFlight(d) ==
    {t \in Callers : pc[t] = "offered" /\ call[t] # None /\ call[t][1].dev = d}

\* C1: on one channel the N-th receive / complete pair resolves the N-th
\* execute call in call order: the commands delivered to the driver are the
\* commands called, in call order, each once; the N-th call to return is the
\* N-th call made and its result is the N-th answer the driver gave.
C1_FifoMatching ==
    \A d \in Devices :
        LET h == hist[d] IN
        /\ Len(h.returned) <= Len(h.answered)
        /\ Len(h.answered) <= Len(h.delivered)
        /\ Len(h.delivered) <= Len(h.calls)
        /\ \A n \in 1..Len(h.delivered) : h.delivered[n] = h.calls[n].cmd
        /\ \A n \in 1..Len(h.returned) :
                /\ h.returned[n].by = h.calls[n].by
                /\ h.returned[n].cmd = h.calls[n].cmd
                /\ h.returned[n].resp = h.answered[n]

\* two calls of different tasks with different commands were queued behind
\* one another and have returned with different answers
C1_Witness ==
    LET h == hist[Dev0] IN
    /\ Len(h.returned) = 2
    /\ h.returned[1].by # h.returned[2].by
    /\ h.returned[1].cmd # h.returned[2].cmd
    /\ h.returned[1].resp = Err(Failed)
    /\ h.returned[2].resp = Ok(Complete)

\* C2: each channel has at most one command in flight; a call made while an
\* earlier request is unclaimed or unanswered waits, is offered only once
\* every earlier call has returned, and is never dropped or superseded.
C2_OneInFlight ==
    \A d \in Devices :
        LET h == hist[d] IN
        /\ Cardinality(InFlight(d)) <= 1
        /\ Len(h.delivered) - Len(h.returned) <= 1
        /\ Len(h.calls) - Len(h.returned) = Cardinality(Waiting(d))
        /\ \A t \in Waiting(d) :
                \E n \in (Len(h.returned) + 1)..Len(h.calls) :
                    /\ h.calls[n].by = t
                    /\ h.calls[n].cmd = call[t][1].cmd
        /\ \A t \in InFlight(d) : h.calls[Len(h.returned) + 1].by = t

\* the driver holds the claimed request of one task while another task waits
C2_Witness ==
    /\ drv[Dev0] = "handling"
    /\ \E t \in Callers, u \in Callers :
            /\ t # u
            /\ InFlight(Dev0) = {t}
            /\ Waiting(Dev0) = {t, u}
            /\ pc[u] = "queued"

(***************************************************************************)
(* Statements about commands and the device state                          *)
(***************************************************************************)
\* the step in which execute_device_command is called by task t
Calls(t) == pc[t] = "idle" /\ pc'[t] # "idle"
\* the step in which execute_device_command returns to task t
Returns(t) == pc[t] = "offered" /\ pc'[t] = "returned"
\* the step in which the policy action of task t ends
Finishes(t) == pc[t] = "returned" /\ pc'[t] = "idle"
\* task t is back from a call of the given command on device d
Back(t, d, command) ==
    /\ pc[t] = "returned"
    /\ call[t][1].dev = d
    /\ call[t][1].cmd = command
\* task t is back from such a call, and the call succeeded
Succeeded(t, d, command) ==
    /\ Back(t, d, command)
    /\ call[t][1].result = Some(Ok(Complete))

\* C3, as claimed: once execute_device_command(ConnectAsConsumer(cap)) has
\* returned success, state() is ConnectedConsumer(cap), is_consumer() is true
\* and is_provider() is false.
C3_Original ==
    \A t \in Callers, d \in Devices, cap \in ConsumerCaps :
        Succeeded(t, d, <<"ConnectAsConsumer", cap>>) =>
            /\ state(d) = <<"ConnectedConsumer", cap>>
            /\ is_consumer(d)
            /\ ~is_provider(d)

\* C3, amended: the return of execute_device_command(ConnectAsConsumer(cap))
\* leaves the InternalState as it was; when the policy action that issued it
\* ends after a success, its set_state has made state() ConnectedConsumer(cap),
\* is_consumer() true and is_provider() false.
C3_ConnectConsumer ==
    [][\A t \in Callers, d \in Devices, cap \in ConsumerCaps :
        /\ (Returns(t) /\ call[t][1].cmd = <<"ConnectAsConsumer", cap>>)
                => internal' = internal
        /\ (Finishes(t) /\ Succeeded(t, d, <<"ConnectAsConsumer", cap>>)) =>
                /\ state(d)' = <<"ConnectedConsumer", cap>>
                /\ is_consumer(d)'
                /\ ~is_provider(d)'
      ]_vars

\* a ConnectAsConsumer(9) has succeeded, its policy action has ended and the
\* device consumes with that capability
C3_Witness ==
    LET h == hist[Dev0] IN
    /\ \E n \in 1..Len(h.returned) :
            /\ h.returned[n].cmd = <<"ConnectAsConsumer", 9>>
            /\ h.returned[n].resp = Ok(Complete)
            /\ pc[h.returned[n].by] = "idle"
    /\ state(Dev0) = <<"ConnectedConsumer", 9>>
    /\ is_consumer(Dev0)

\* C4, as claimed: when execute_device_command(Disconnect) returns success on
\* a device in ConnectedProvider or ConnectedConsumer, state() is Detached.
C4_Original ==
    [][\A t \in Callers, d \in Devices :
        (/\ Returns(t)
         /\ kind(state(d)) \in {"ConnectedProvider", "ConnectedConsumer"}
         /\ Succeeded(t, d, <<"Disconnect">>)')
            => state(d)' = <<"Detached">>
      ]_vars

\* C4, amended: the return of execute_device_command(Disconnect) leaves the
\* InternalState as it was; when the policy action that issued it ends after
\* a success, its set_state has made state() Idle, not Detached.
C4_Disconnect ==
    [][\A t \in Callers, d \in Devices :
        /\ (Returns(t) /\ call[t][1].cmd = <<"Disconnect">>)
                => internal' = internal
        /\ (Finishes(t) /\ Succeeded(t, d, <<"Disconnect">>)) =>
                /\ state(d)' = <<"Idle">>
                /\ kind(state(d))' # "Detached"
      ]_vars

\* a connect and then a Disconnect have succeeded, the policy actions have
\* ended and the device is Idle
C4_Witness ==
    LET h == hist[Dev0] IN
    /\ Len(h.returned) = 2
    /\ h.returned[1].cmd = <<"ConnectAsConsumer", 5>>
    /\ h.returned[1].resp = Ok(Complete)
    /\ h.returned[2].cmd = <<"Disconnect">>
    /\ h.returned[2].resp = Ok(Complete)
    /\ \A t \in Callers : pc[t] = "idle"
    /\ state(Dev0) = <<"Idle">>

\* C5, as claimed: whichever of receive() and
\* execute_device_command(ConnectAsProvider(cap)) arrives first, the driver
\* obtains that command, its completion is the result of the call, and once
\* the call has returned Ok(Complete), state() is ConnectedProvider(cap).
C5_Original ==
    \A d \in Devices :
        /\ drv[d] = "handling" =>
                \E t \in InFlight(d) : held[d] = Some(call[t][1].cmd)
        /\ \A t \in Callers, cap \in ProviderCaps :
                Succeeded(t, d, <<"ConnectAsProvider", cap>>) =>
                    /\ state(d) = <<"ConnectedProvider", cap>>
                    /\ provider_capability(d) = Some(cap)

\* C5, amended: whichever of receive() and
\* execute_device_command(ConnectAsProvider(cap)) arrives first, the driver
\* obtains exactly the command of the call in flight, and the answer it gives
\* is the result of that call; the exchange leaves the InternalState as it
\* was, and state() is ConnectedProvider(cap) once the policy action that
\* issued the command has ended with its set_state.
C5_ConnectProvider ==
    /\ [](\A d \in Devices :
            drv[d] = "handling" =>
                \E t \in InFlight(d) : held[d] = Some(call[t][1].cmd))
    /\ [][\A t \in Callers, d \in Devices, cap \in ProviderCaps :
            /\ (Returns(t) /\ Back(t, d, <<"ConnectAsProvider", cap>>)') =>
                    /\ internal' = internal
                    /\ call'[t][1].result =
                            Some(hist[d].answered[Len(hist[d].answered)])
            /\ (Finishes(t) /\ Succeeded(t, d, <<"ConnectAsProvider", cap>>)) =>
                    /\ state(d)' = <<"ConnectedProvider", cap>>
                    /\ provider_capability(d)' = Some(cap)
                    /\ is_provider(d)'
         ]_vars

\* the driver was waiting in receive when the one call,
\* ConnectAsProvider(5), was made; the call returned Ok(Complete), the policy
\* action has ended and the device provides with that capability
C5_Witness ==
    LET h == hist[Dev0] IN
    /\ h.early
    /\ Len(h.calls) = 1
    /\ h.delivered = << <<"ConnectAsProvider", 5>> >>
    /\ Len(h.returned) = 1
    /\ h.returned[1].resp = Ok(Complete)
    /\ pc[h.returned[1].by] = "idle"
    /\ provider_capability(Dev0) = Some(5)

\* C7, as claimed: execute_device_command called while the live state kind
\* is not one the command requires fails with InvalidState(expected, actual)
\* and the command goes nowhere.
C7_Original ==
    [][\A t \in Callers, d \in Devices, command \in CommandData :
        (/\ Calls(t)
         /\ call'[t] # None /\ call'[t][1].dev = d /\ call'[t][1].cmd = command
         /\ kind(state(d)) \notin RequiredKinds(command)) =>
            /\ pc'[t] = "returned"
            /\ \E k \in RequiredKinds(command) :
                    call'[t][1].result = Some(Err(InvalidState(k, kind(state(d)))))
            /\ chan' = chan
      ]_vars

\* C7, amended: execute_device_command checks no state: called while the
\* live state kind is not one the command requires, the call is still handed
\* to the channel, its command is delivered to the driver, and its result is
\* the answer of the driver, not an InvalidState of its own.
C7_NoStateCheck ==
    /\ [][\A t \in Callers, d \in Devices, command \in CommandData :
            (/\ Calls(t)
             /\ call'[t] # None /\ call'[t][1].dev = d
             /\ call'[t][1].cmd = command) =>
                /\ pc'[t] = "queued"
                /\ hist'[d].calls = Append(hist[d].calls, [by |-> t, cmd |-> command])
                /\ internal' = internal
         ]_vars
    /\ [](\A t \in Callers :
            pc[t] = "returned" =>
                \E n \in 1..Len(hist[call[t][1].dev].returned) :
                    LET h == hist[call[t][1].dev] IN
                    /\ h.returned[n].by = t
                    /\ h.delivered[n] = call[t][1].cmd
                    /\ call[t][1].result = Some(h.answered[n]))

\* no attach has happened and no other call was made: ConnectAsProvider(5),
\* called on the Detached device, has returned the driver's Ok(Complete)
C7_Witness ==
    /\ probe = None
    /\ Len(hist[Dev0].calls) = 1
    /\ state(Dev0) = <<"Detached">>
    /\ \E t \in Callers : Succeeded(t, Dev0, <<"ConnectAsProvider", 5>>)

(***************************************************************************)
(* Statements about typestate access and detach                            *)
(***************************************************************************)
\* the step of an operation that leaves its outcome in probe: op on device d
\* with state tag S
ProbeStep(op, d, S) ==
    /\ probe' # None
    /\ probe'[1][1] = op /\ probe'[1][2] = d /\ probe'[1][3] = S
    /\ UNCHANGED <<chan, pc, call, drv, held, hist>>
    /\ probe' # probe \/ internal' # internal

\* the view a try_*_action hands out
ViewOf(op) == IF op = "try_device_action" THEN "device" ELSE "policy"

\* C6: try_device_action::<S>() and try_policy_action::<S>() return a handle
\* if and only if the live state kind is S, otherwise
\* InvalidState(expected = S, actual = live kind), and leave the
\* InternalState unchanged.
C6_TryAction ==
    [][\A op \in {"try_device_action", "try_policy_action"},
          d \in Devices, S \in StateKind :
        ProbeStep(op, d, S) =>
            /\ (probe'[1][4][1] = "Ok") <=> (kind(state(d)) = S)
            /\ kind(state(d)) = S => probe'[1][4] = Ok(Handle(ViewOf(op), d, S))
            /\ kind(state(d)) # S =>
                    probe'[1][4] = Err(InvalidState(S, kind(state(d))))
            /\ internal' = internal
      ]_vars

\* try_policy_action::<Idle>() on a device that provides power has failed
C6_Witness ==
    /\ kind(state(Dev0)) = "ConnectedProvider"
    /\ probe = Some(<<"try_policy_action", Dev0, "Idle",
                      Err(InvalidState("Idle", "ConnectedProvider"))>>)

\* C8: a freshly constructed device is Detached with consumer_capability and
\* requested_provider_capability absent, and try_device_action::<Idle>() on
\* it fails with InvalidState(Idle, Detached).
C8_FreshDevice ==
    /\ \A d \in Devices :
            /\ state(d) = <<"Detached">>
            /\ consumer_capability(d) = None
            /\ requested_provider_capability(d) = None
            /\ ~is_consumer(d) /\ ~is_provider(d)
    /\ [][\A d \in Devices :
            (Init /\ ProbeStep("try_device_action", d, "Idle")) =>
                probe'[1][4] = Err(InvalidState("Idle", "Detached"))
         ]_vars

\* nothing but try_device_action::<Idle>() has run on the constructed device
C8_Witness ==
    /\ \A d \in Devices :
            /\ internal[d] = [state |-> <<"Detached">>,
                              consumer_capability |-> <<>>,
                              requested_provider_capability |-> <<>>]
            /\ hist[d].calls = <<>>
    /\ probe = Some(<<"try_device_action", Dev0, "Idle",
                      Err(InvalidState("Idle", "Detached"))>>)

\* C9: detach() succeeds from each of the four states and leaves state()
\* Detached; on a Detached device it returns at once and changes nothing, so
\* a second detach() leaves the device as the first did.
C9_Detach ==
    [][\A d \in Devices, S \in StateKind :
        ProbeStep("detach", d, S) =>
            /\ S = kind(state(d))
            /\ probe'[1][4] = Ok(Handle("device", d, "Detached"))
            /\ state(d)' = <<"Detached">>
            /\ internal'[d].consumer_capability = internal[d].consumer_capability
            /\ internal'[d].requested_provider_capability =
                    internal[d].requested_provider_capability
            /\ state(d) = <<"Detached">> => internal' = internal
      ]_vars

\* detach() has run on a device that was consuming power
C9_Witness ==
    /\ probe = Some(<<"detach", Dev0, "ConnectedConsumer",
                      Ok(Handle("device", Dev0, "Detached"))>>)
    /\ state(Dev0) = <<"Detached">>

AbandonedOffered(d) ==
    {i \in 1..Len(hist[d].abandoned) : hist[d].abandoned[i].at = "offered"}

\* C11: when a caller abandons an execute call whose request is in flight,
\* the request is still delivered to and completed by the driver, and its
\* response is discarded: every call that returns was itself delivered and
\* returns the answer given to its own delivery, in order, so no discarded
\* answer reaches a later call, and no call is lost.
C11_AbandonedDiscarded ==
    \A d \in Devices :
        LET h == hist[d] IN
        /\ \E f \in [1..Len(h.returned) -> 1..Len(h.answered)] :
                /\ \A k \in 1..Len(h.returned) :
                        /\ h.delivered[f[k]] = h.returned[k].cmd
                        /\ h.answered[f[k]] = h.returned[k].resp
                /\ \A k \in 1..Len(h.returned), l \in 1..Len(h.returned) :
                        k < l => f[k] < f[l]
        /\ Len(h.delivered) + (IF Channel_available(chan[d]) THEN 1 ELSE 0)
                = Len(h.returned) + Cardinality(AbandonedOffered(d))
                    + Cardinality(InFlight(d))
        /\ Len(h.calls) = Len(h.returned) + Len(h.abandoned)
                            + Cardinality(Waiting(d))
        /\ Len(h.answered) <= Len(h.returned) + Cardinality(AbandonedOffered(d)) + 1

\* a call was abandoned with its request in flight, the driver answered that
\* request with an error, and a later call of another command has returned
\* its own Ok(Complete)
C11_Witness ==
    LET h == hist[Dev0] IN
    /\ Len(h.abandoned) = 1
    /\ h.abandoned[1].at = "offered"
    /\ Len(h.delivered) = 2
    /\ h.delivered[1] = h.abandoned[1].cmd
    /\ h.answered = <<Err(Failed), Ok(Complete)>>
    /\ Len(h.returned) = 1
    /\ h.returned[1].cmd = h.delivered[2]
    /\ h.returned[1].cmd # h.delivered[1]
    /\ h.returned[1].resp = Ok(Complete)

(***************************************************************************)
(* Statements about the registry                                           *)
(***************************************************************************)
\* a step that is a registration of device d
Registers(d) ==
    /\ probe' # None
    /\ probe'[1][1] = "register" /\ probe'[1][2] = d
    /\ list' # list \/ node' # node \/ probe' # probe

\* C12: appending a device whose link record is already part of the
\* registry fails with AlreadyLinked and leaves the list as it was, so an
\* iteration still yields the devices inserted before, each once, in
\* insertion order; an unlinked device goes to the tail.
C12_AlreadyLinked ==
    /\ [](\A i \in 1..Len(list), j \in 1..Len(list) :
            IntrusiveList_iter(list)[i] = IntrusiveList_iter(list)[j] => i = j)
    /\ [](\A d \in Devices : node[d].linked <=> \E i \in 1..Len(list) : list[i] = d)
    /\ [][\A d \in Devices : Registers(d) =>
            IF node[d].linked
                THEN /\ probe'[1][4] = Err(AlreadyLinked)
                     /\ IntrusiveList_iter(list') = IntrusiveList_iter(list)
                     /\ node' = node
                ELSE /\ probe'[1][4] = Ok(d)
                     /\ IntrusiveList_iter(list') = Append(list, d)]_vars

\* both devices are in the registry, B before A, and the last operation was
\* a second append of B, which failed
C12_Witness ==
    /\ list = <<"B", "A">>
    /\ probe = Some(<<"register", "B", "node", Err(AlreadyLinked)>>)

(***************************************************************************)
(* Statements about error answers                                          *)
(***************************************************************************)
\* C13: when the driver answers a command with an error, the call that
\* issued the command returns exactly that error, to the task that made the
\* call, and changes nothing in the device; the command is not offered to
\* the driver again, so no command is delivered more often than it was
\* called.
C13_ErrorReturned ==
    /\ [](\A d \in Devices :
            /\ Len(hist[d].delivered) <= Len(hist[d].calls)
            /\ Len(hist[d].answered) <= Len(hist[d].returned) + 1
            /\ \A n \in 1..Len(hist[d].returned) :
                    hist[d].answered[n][1] = "Err" =>
                        /\ hist[d].returned[n].resp = hist[d].answered[n]
                        /\ hist[d].returned[n].by = hist[d].calls[n].by
                        /\ hist[d].returned[n].cmd = hist[d].delivered[n])
    /\ [][\A t \in Callers, d \in Devices :
            (Returns(t) /\ call[t][1].dev = d /\ chan[d].reply[1][1] = "Err") =>
                /\ call'[t][1].result = chan[d].reply
                /\ internal' = internal
                /\ ~Channel_available(chan[d])'
                /\ hist'[d].delivered = hist[d].delivered]_vars

\* the first call was answered with Failed and has returned Failed, after
\* one delivery, and the second call has returned Ok(Complete)
C13_Witness ==
    LET h == hist[Dev0] IN
    /\ Len(h.calls) = 2 /\ Len(h.delivered) = 2
    /\ h.answered = <<Err(Failed), Ok(Complete)>>
    /\ Len(h.returned) = 2
    /\ h.returned[1].resp = Err(Failed)
    /\ h.returned[2].resp = Ok(Complete)
    /\ \E t \in Callers : pc[t] = "returned" /\ call[t][1].result = Some(Ok(Complete))

(***************************************************************************)
(* Statements about two devices                                            *)
(***************************************************************************)
\* everything device d owns: its InternalState, its channel, its driver and
\* the history of its channel
Owned(d) == <<internal[d], chan[d], drv[d], held[d], hist[d], node[d]>>

\* a step that is an operation on device a: a step of an execute call on a,
\* a step of the driver of a, or a setter, detach or attach on a
OperatesOn(a) ==
    \/ \E t \in Callers :
            /\ pc'[t] # pc[t]
            /\ \/ call[t] # None /\ call[t][1].dev = a
               \/ call'[t] # None /\ call'[t][1].dev = a
    \/ drv'[a] # drv[a]
    \/ internal'[a] # internal[a]
    \/ probe' # None /\ probe' # probe /\ probe'[1][2] = a

\* the execute call of device a is suspended and no driver is servicing it
Suspended(a) == TaskOf(a) \in Waiting(a) /\ drv[a] = "idle"

\* C14: the devices are independent: an operation on device a leaves the
\* InternalState and the channel of every other device b as they were, and
\* while an execute call on a is suspended with no driver servicing it,
\* every operation on b that has work to do can take its step: a new call,
\* the offer and the return of a call, the driver's receive and completion,
\* and detach.
C14_Independent ==
    /\ [](\A a \in Devices : \A b \in Devices \ {a} :
            Suspended(a) =>
                /\ (pc[TaskOf(b)] = "idle" /\ Len(hist[b].calls) < MaxCalls)
                        => ENABLED execute_device_command(TaskOf(b), b, <<"Disconnect">>)
                /\ (pc[TaskOf(b)] = "queued")
                        => ENABLED execute_offer(TaskOf(b), b)
                /\ (pc[TaskOf(b)] = "offered"
                        /\ Len(hist[b].answered) > Len(hist[b].returned))
                        => ENABLED execute_return(TaskOf(b), b)
                /\ (drv[b] = "idle") => ENABLED receive(b)
                /\ (drv[b] = "receiving" /\ pc[TaskOf(b)] = "offered"
                        /\ Len(hist[b].delivered) = Len(hist[b].returned))
                        => ENABLED receive_return(b)
                /\ (drv[b] = "handling") => ENABLED respond(b, Ok(Complete))
                /\ ENABLED detach(b))
    /\ [][\A a \in Devices : \A b \in Devices \ {a} :
            OperatesOn(a) => Owned(b)' = Owned(b)]_vars

\* the call on A is suspended, offered and never received, while B has
\* completed a call, was marked ConnectedConsumer by it, and is in the
\* middle of the next one
C14_Witness ==
    /\ pc["p1"] = "offered" /\ drv["A"] = "idle"
    /\ hist["A"].delivered = <<>>
    /\ Len(hist["B"].returned) = 1
    /\ state("B") = <<"ConnectedConsumer", 5>>
    /\ state("A") = <<"Detached">>
    /\ drv["B"] = "handling"

(***************************************************************************)
(* Statements about the fields of the InternalState                        *)
(***************************************************************************)
\* a step in which operation op was called on device d
Called(op, d) ==
    /\ probe' # None
    /\ probe'[1][1] = op /\ probe'[1][2] = d
    /\ UNCHANGED <<chan, pc, call, drv, held, hist>>
    /\ probe' # probe \/ internal' # internal

\* C15: provider_capability() is Some(cap) exactly when the state is
\* ConnectedProvider(cap) and None in every other state, whatever
\* requested_provider_capability holds: a step that leaves the state alone
\* leaves provider_capability() alone, and a read returns the two
\* independently.
C15_ProviderCapability ==
    /\ [](\A d \in Devices :
            \/ \E cap \in ProviderCaps :
                    /\ state(d) = <<"ConnectedProvider", cap>>
                    /\ provider_capability(d) = Some(cap)
            \/ /\ state(d)[1] # "ConnectedProvider"
               /\ provider_capability(d) = None)
    /\ [][\A d \in Devices :
            /\ state(d)' = state(d) => provider_capability(d)' = provider_capability(d)
            /\ Called("read", d) =>
                /\ probe'[1][4].requested_provider_capability
                        = internal[d].requested_provider_capability
                /\ probe'[1][4].provider_capability
                        = IF state(d)[1] = "ConnectedProvider"
                            THEN Some(state(d)[2]) ELSE None]_vars

\* a read of a device that is ConnectedProvider(5) while a provider
\* capability of 9 is requested returned 5
C15_Witness ==
    /\ state(Dev0) = <<"ConnectedProvider", 5>>
    /\ requested_provider_capability(Dev0) = Some(9)
    /\ probe # None /\ probe[1][1] = "read"
    /\ probe[1][4].state = <<"ConnectedProvider", 5>>
    /\ probe[1][4].provider_capability = Some(5)
    /\ probe[1][4].requested_provider_capability = Some(9)

\* C16: in every reachable state state().kind() is the tag of the stored
\* State, and the State carries a capability exactly when its kind is
\* ConnectedProvider or ConnectedConsumer.
C16_KindIsTag ==
    \A d \in Devices :
        LET s == state(d) IN
        /\ kind(s) \in StateKind
        /\ kind(s) = s[1]
        /\ Len(s) = 2 <=> kind(s) \in {"ConnectedProvider", "ConnectedConsumer"}
        /\ Len(s) = 1 <=> kind(s) \in {"Idle", "Detached"}
        /\ kind(s) = "ConnectedProvider" => s[2] \in ProviderCaps
        /\ kind(s) = "ConnectedConsumer" => s[2] \in ConsumerCaps
        /\ (probe # None /\ probe[1][1] = "set_state") =>
                probe[1][3] = probe[1][4][1]

\* set_state(ConnectedProvider(9)) was the last operation
C16_Witness ==
    /\ probe = Some(<<"set_state", Dev0, "ConnectedProvider", <<"ConnectedProvider", 9>>>>)
    /\ state(Dev0) = <<"ConnectedProvider", 9>>
    /\ kind(state(Dev0)) = "ConnectedProvider"

(***************************************************************************)
(* Statements about the state machine of a device                          *)
(***************************************************************************)
\* the last operation recorded is op on device d, and this step recorded it
Reported(op, d) ==
    probe' # None /\ probe' # probe /\ probe'[1][1] = op /\ probe'[1][2] = d

\* this step ends the policy action of a successful call of command on d
Completes(d, command) ==
    \E t \in Callers : Finishes(t) /\ Succeeded(t, d, command)

\* C17, as claimed: every change of a device's state follows one of the
\* edges Detached -> Idle on attach, Idle -> ConnectedConsumer(cap) on
\* ConnectAsConsumer(cap), Idle -> ConnectedProvider(cap) on
\* ConnectAsProvider(cap), Connected* -> Idle on Disconnect, and any state
\* -> Detached on detach; no command moves a device out of Detached.
C17_Original ==
    [][\A d \in Devices :
        state(d)' # state(d) =>
            \/ /\ state(d) = <<"Detached">> /\ state(d)' = <<"Idle">>
               /\ Reported("attach", d)
            \/ \E cap \in ConsumerCaps :
                    /\ state(d) = <<"Idle">>
                    /\ state(d)' = <<"ConnectedConsumer", cap>>
                    /\ Completes(d, <<"ConnectAsConsumer", cap>>)
            \/ \E cap \in ProviderCaps :
                    /\ state(d) = <<"Idle">>
                    /\ state(d)' = <<"ConnectedProvider", cap>>
                    /\ Completes(d, <<"ConnectAsProvider", cap>>)
            \/ /\ state(d)[1] \in {"ConnectedProvider", "ConnectedConsumer"}
               /\ state(d)' = <<"Idle">>
               /\ Completes(d, <<"Disconnect">>)
            \/ /\ state(d)' = <<"Detached">>
               /\ Reported("detach", d)]_vars

(***************************************************************************)
(* Statements about progress                                               *)
(***************************************************************************)
\* C18: when the driver keeps calling receive and completes every handle it
\* obtains, and every task that can take a step is eventually run, every
\* execute_device_command call eventually returns, the calls queued behind
\* an earlier one included.
C18_EveryCallReturns ==
    \A t \in Callers :
        (pc[t] \in {"queued", "offered"}) ~> (pc[t] = "returned")

\* a call is queued behind the call of another task that is in flight
C18_Witness ==
    /\ pc["p2"] = "queued" /\ pc["p1"] = "offered"
    /\ chan[Dev0].waiters = <<"p1", "p2">>
    /\ chan[Dev0].claimed

(***************************************************************************)
(* Statements about the setters                                            *)
(***************************************************************************)
\* C19: the capabilities are not tied to the state: set_state leaves both
\* capability fields as they were and the capability setters leave the
\* state as it was, each being a step of its own, and a read that runs
\* between them returns the state and the capability as stored at that
\* moment, whether or not they agree.
C19_NotTied ==
    [][\A d \in Devices :
        /\ Called("set_state", d) =>
            /\ consumer_capability(d)' = consumer_capability(d)
            /\ requested_provider_capability(d)' = requested_provider_capability(d)
        /\ Called("update_consumer_capability", d) => state(d)' = state(d)
        /\ Called("update_requested_provider_capability", d) => state(d)' = state(d)
        /\ Called("read", d) =>
            /\ probe'[1][4].state = internal[d].state
            /\ probe'[1][4].consumer_capability = internal[d].consumer_capability
            /\ probe'[1][3] = kind(internal[d].state)]_vars

\* a read found the device Detached with the consumer capability 5 still
\* stored
C19_Witness ==
    /\ probe # None /\ probe[1][1] = "read" /\ probe[1][2] = Dev0
    /\ probe[1][3] = "Detached"
    /\ probe[1][4].consumer_capability = Some(5)
    /\ ~probe[1][4].is_consumer
    /\ state(Dev0) = <<"Detached">>
    /\ consumer_capability(Dev0) = Some(5)

\* the step is a step of an execute_device_command call or of receive
ChannelStep == pc' # pc \/ drv' # drv

\* C20: each setter writes exactly the one field it names, with the value it
\* was given, and leaves the other two fields alone; the read accessors,
\* try_device_action, try_policy_action, device_action, policy_action,
\* execute_device_command and receive leave all three fields and the set of
\* devices as they were.
C20_Frame ==
    [][/\ \A d \in Devices :
            /\ Called("set_state", d) =>
                    internal' = [internal EXCEPT ![d].state = probe'[1][4]]
            /\ Called("update_consumer_capability", d) =>
                    internal' = [internal EXCEPT
                                    ![d].consumer_capability = probe'[1][4]]
            /\ Called("update_requested_provider_capability", d) =>
                    internal' = [internal EXCEPT
                                    ![d].requested_provider_capability = probe'[1][4]]
            /\ \A op \in {"read", "try_device_action", "try_policy_action",
                          "device_action", "policy_action"} :
                    Called(op, d) => internal' = internal
       /\ ChannelStep => internal' = internal
       /\ DOMAIN internal' = Devices]_vars

\* all three fields have been written, the requested capability last, and
\* an execute_device_command call has returned in between
C20_Witness ==
    /\ internal[Dev0] = [state |-> <<"ConnectedProvider", 5>>,
                         consumer_capability |-> Some(9),
                         requested_provider_capability |-> Some(5)]
    /\ probe = Some(<<"update_requested_provider_capability", Dev0,
                      "ConnectedProvider", Some(5)>>)
    /\ pc["p1"] = "returned"

(***************************************************************************)
(* Statements about handles and the guard                                  *)
(***************************************************************************)
\* a task holds the handle tagged S that a try_*_action on device d handed
\* out
HandleHeld(d, S) ==
    /\ probe # None
    /\ probe[1][1] \in {"try_device_action", "try_policy_action"}
    /\ probe[1][2] = d /\ probe[1][3] = S
    /\ probe[1][4] = Ok(Handle(ViewOf(probe[1][1]), d, S))

\* C21: a handle is validated once, when it is handed out: at that moment
\* its tag S is the live state kind. The handle holds no guard: while it is
\* held, detach, attach and the set_state of a policy action can still take
\* their step, and the step that makes a held handle differ from the live
\* kind is the set_state of another task's policy action, which leaves the
\* handle as it is.
C21_ValidOnce ==
    /\ [][\A op \in {"try_device_action", "try_policy_action"},
            d \in Devices, S \in StateKind :
            (ProbeStep(op, d, S) /\ probe'[1][4][1] = "Ok") =>
                /\ S = kind(state(d))
                /\ S = kind(state(d)')
                /\ HandleHeld(d, S)']_vars
    /\ [](\A d \in Devices, S \in StateKind :
            HandleHeld(d, S) =>
                /\ ENABLED detach(d)
                /\ kind(state(d)) = "Detached" => ENABLED attach(d)
                /\ \A t \in Callers :
                        (pc[t] = "returned" /\ call[t][1].dev = d)
                            => ENABLED policy_finish(t))
    /\ [][\A d \in Devices, S \in StateKind :
            (HandleHeld(d, S) /\ HandleHeld(d, S)'
                /\ kind(state(d)) = S /\ kind(state(d)') # S) =>
                    /\ probe' = probe
                    /\ \E t \in Callers : Finishes(t)]_vars

\* a policy handle tagged Idle is held while the device has become
\* ConnectedConsumer
C21_Witness ==
    /\ HandleHeld(Dev0, "Idle")
    /\ probe[1][1] = "try_policy_action"
    /\ kind(state(Dev0)) = "ConnectedConsumer"

\* a task is suspended in execute_device_command or in receive on device d
SuspendedOn(d) == Waiting(d) # {} \/ drv[d] = "receiving"

\* C22: the guard of the state is not held by a task suspended in
\* execute_device_command or receive: while a command is in flight on a
\* device, the read accessors, the typestate checks and the three setters
\* of that device can take their step, and so can the driver's answer and
\* the return of the call, so a driver that sets the state before it
\* answers does not block against the waiting policy task.
C22_GuardFree ==
    \A d \in Devices :
        /\ (SuspendedOn(d) \/ drv[d] = "handling") =>
            /\ ENABLED ReadAccessors(d)
            /\ \A S \in StateKind : ENABLED TryDeviceAction(d, S)
            /\ \A new_state \in State : ENABLED SetState(d, new_state)
            /\ \A capability \in OptionConsumerCaps :
                    ENABLED UpdateConsumerCapability(d, capability)
            /\ \A capability \in OptionProviderCaps :
                    ENABLED UpdateRequestedProviderCapability(d, capability)
        /\ drv[d] = "handling" => ENABLED respond(d, Ok(Complete))
        /\ \A t \in InFlight(d) :
                Len(hist[d].answered) > Len(hist[d].returned)
                    => ENABLED execute_return(t, d)

\* the policy task is suspended in its call, the driver holds the request
\* and has not answered yet, and the state was set to ConnectedConsumer(5)
C22_Witness ==
    /\ pc["p1"] = "offered" /\ drv[Dev0] = "handling"
    /\ held[Dev0] # None
    /\ Len(hist[Dev0].answered) = 0
    /\ probe = Some(<<"set_state", Dev0, "ConnectedConsumer",
                      <<"ConnectedConsumer", 5>>>>)
    /\ state(Dev0) = <<"ConnectedConsumer", 5>>

====
